---- MODULE Spec2Model ----
(***************************************************************************)
(* Model of app.py, the single-page quiz application.                      *)
(*                                                                         *)
(* Text.  A Python str is a sequence of characters, each character its    *)
(* Unicode code point, a natural number: "ab" is <<97, 98>>, the blank is  *)
(* 32, the entry that stands for every course, chapter or type is          *)
(* <<20840, 37096>>.  Character classes are those of Python 3.11           *)
(* (Unicode 14.0.0).                                                       *)
(*                                                                         *)
(* JSON values.  A value of a question record is Str(s), List(l), Null,    *)
(* Bool(b), Num(n) for an integer, or Object(pairs) for an object, whose   *)
(* members are written <<key, value>> in document order, the keys being    *)
(* texts; numbers with a fraction or an exponent are left out.             *)
(* A question is a record holding exactly the keys its JSON object holds.  *)
(* Inside a bank document a JSON object is written Dict(fields), the items  *)
(* of a list document are values of this kind, and a file whose text does  *)
(* not parse holds the document Malformed.  A list held by a record field  *)
(* (options, answer) is a list of texts.                                   *)
(* The tri-state last_is_correct (True / False / None) is written          *)
(* "correct" / "incorrect" / "ungraded".                                   *)
(***************************************************************************)
EXTENDS Integers, Sequences, FiniteSets

VARIABLES data_dir, load_outcome, quiz_data, selected, current_index, score,
          submitted, last_is_correct, progress_map, active_state_key,
          user_answer, notice

vars == <<data_dir, load_outcome, quiz_data, selected, current_index, score,
          submitted, last_is_correct, progress_map, active_state_key,
          user_answer, notice>>

(***************************************************************************)
(* Values                                                                  *)
(***************************************************************************)
Str(s) == [t |-> "str", v |-> s]

List(l) == [t |-> "list", v |-> l]

Null == [t |-> "null", v |-> <<>>]

\* a JSON true / false
Bool(b) == [t |-> "bool", v |-> b]

\* a JSON number without fraction or exponent
Num(n) == [t |-> "int", v |-> n]

\* a JSON object held by a field: its members <<key, value>> in document order
Object(pairs) == [t |-> "object", v |-> pairs]

\* a JSON object inside a bank document
Dict(fields) == [t |-> "dict", v |-> fields]

\* the content of a file json.loads (or read_text) raises on
Malformed == [t |-> "malformed", v |-> <<>>]

\* q.get(k): the value under k, None when the key is absent
Get(q, k) == IF k \in DOMAIN q THEN q[k] ELSE Null

\* Python truthiness of a value
Truthy(x) ==
    CASE x.t = "null" -> FALSE
      [] x.t = "bool" -> x.v
      [] x.t = "int" -> x.v # 0
      [] x.t = "dict" -> DOMAIN x.v # {}
      [] OTHER -> Len(x.v) > 0

\* the code points str.isprintable() is false for (Unicode 14.0.0), as ranges
\* <<first, last>>: controls, format characters, separators other than the
\* blank, surrogates, private use and unassigned code points
NotPrintableRanges ==
    {<<0, 31>>, <<127, 160>>, <<173, 173>>, <<888, 889>>, <<896, 899>>,
     <<907, 907>>, <<909, 909>>, <<930, 930>>, <<1328, 1328>>, <<1367, 1368>>,
     <<1419, 1420>>, <<1424, 1424>>, <<1480, 1487>>, <<1515, 1518>>, <<1525, 1541>>,
     <<1564, 1564>>, <<1757, 1757>>, <<1806, 1807>>, <<1867, 1868>>, <<1970, 1983>>,
     <<2043, 2044>>, <<2094, 2095>>, <<2111, 2111>>, <<2140, 2141>>, <<2143, 2143>>,
     <<2155, 2159>>, <<2191, 2199>>, <<2274, 2274>>, <<2436, 2436>>, <<2445, 2446>>,
     <<2449, 2450>>, <<2473, 2473>>, <<2481, 2481>>, <<2483, 2485>>, <<2490, 2491>>,
     <<2501, 2502>>, <<2505, 2506>>, <<2511, 2518>>, <<2520, 2523>>, <<2526, 2526>>,
     <<2532, 2533>>, <<2559, 2560>>, <<2564, 2564>>, <<2571, 2574>>, <<2577, 2578>>,
     <<2601, 2601>>, <<2609, 2609>>, <<2612, 2612>>, <<2615, 2615>>, <<2618, 2619>>,
     <<2621, 2621>>, <<2627, 2630>>, <<2633, 2634>>, <<2638, 2640>>, <<2642, 2648>>,
     <<2653, 2653>>, <<2655, 2661>>, <<2679, 2688>>, <<2692, 2692>>, <<2702, 2702>>,
     <<2706, 2706>>, <<2729, 2729>>, <<2737, 2737>>, <<2740, 2740>>, <<2746, 2747>>,
     <<2758, 2758>>, <<2762, 2762>>, <<2766, 2767>>, <<2769, 2783>>, <<2788, 2789>>,
     <<2802, 2808>>, <<2816, 2816>>, <<2820, 2820>>, <<2829, 2830>>, <<2833, 2834>>,
     <<2857, 2857>>, <<2865, 2865>>, <<2868, 2868>>, <<2874, 2875>>, <<2885, 2886>>,
     <<2889, 2890>>, <<2894, 2900>>, <<2904, 2907>>, <<2910, 2910>>, <<2916, 2917>>,
     <<2936, 2945>>, <<2948, 2948>>, <<2955, 2957>>, <<2961, 2961>>, <<2966, 2968>>,
     <<2971, 2971>>, <<2973, 2973>>, <<2976, 2978>>, <<2981, 2983>>, <<2987, 2989>>,
     <<3002, 3005>>, <<3011, 3013>>, <<3017, 3017>>, <<3022, 3023>>, <<3025, 3030>>,
     <<3032, 3045>>, <<3067, 3071>>, <<3085, 3085>>, <<3089, 3089>>, <<3113, 3113>>,
     <<3130, 3131>>, <<3141, 3141>>, <<3145, 3145>>, <<3150, 3156>>, <<3159, 3159>>,
     <<3163, 3164>>, <<3166, 3167>>, <<3172, 3173>>, <<3184, 3190>>, <<3213, 3213>>,
     <<3217, 3217>>, <<3241, 3241>>, <<3252, 3252>>, <<3258, 3259>>, <<3269, 3269>>,
     <<3273, 3273>>, <<3278, 3284>>, <<3287, 3292>>, <<3295, 3295>>, <<3300, 3301>>,
     <<3312, 3312>>, <<3315, 3327>>, <<3341, 3341>>, <<3345, 3345>>, <<3397, 3397>>,
     <<3401, 3401>>, <<3408, 3411>>, <<3428, 3429>>, <<3456, 3456>>, <<3460, 3460>>,
     <<3479, 3481>>, <<3506, 3506>>, <<3516, 3516>>, <<3518, 3519>>, <<3527, 3529>>,
     <<3531, 3534>>, <<3541, 3541>>, <<3543, 3543>>, <<3552, 3557>>, <<3568, 3569>>,
     <<3573, 3584>>, <<3643, 3646>>, <<3676, 3712>>, <<3715, 3715>>, <<3717, 3717>>,
     <<3723, 3723>>, <<3748, 3748>>, <<3750, 3750>>, <<3774, 3775>>, <<3781, 3781>>,
     <<3783, 3783>>, <<3790, 3791>>, <<3802, 3803>>, <<3808, 3839>>, <<3912, 3912>>,
     <<3949, 3952>>, <<3992, 3992>>, <<4029, 4029>>, <<4045, 4045>>, <<4059, 4095>>,
     <<4294, 4294>>, <<4296, 4300>>, <<4302, 4303>>, <<4681, 4681>>, <<4686, 4687>>,
     <<4695, 4695>>, <<4697, 4697>>, <<4702, 4703>>, <<4745, 4745>>, <<4750, 4751>>,
     <<4785, 4785>>, <<4790, 4791>>, <<4799, 4799>>, <<4801, 4801>>, <<4806, 4807>>,
     <<4823, 4823>>, <<4881, 4881>>, <<4886, 4887>>, <<4955, 4956>>, <<4989, 4991>>,
     <<5018, 5023>>, <<5110, 5111>>, <<5118, 5119>>, <<5760, 5760>>, <<5789, 5791>>,
     <<5881, 5887>>, <<5910, 5918>>, <<5943, 5951>>, <<5972, 5983>>, <<5997, 5997>>,
     <<6001, 6001>>, <<6004, 6015>>, <<6110, 6111>>, <<6122, 6127>>, <<6138, 6143>>,
     <<6158, 6158>>, <<6170, 6175>>, <<6265, 6271>>, <<6315, 6319>>, <<6390, 6399>>,
     <<6431, 6431>>, <<6444, 6447>>, <<6460, 6463>>, <<6465, 6467>>, <<6510, 6511>>,
     <<6517, 6527>>, <<6572, 6575>>, <<6602, 6607>>, <<6619, 6621>>, <<6684, 6685>>,
     <<6751, 6751>>, <<6781, 6782>>, <<6794, 6799>>, <<6810, 6815>>, <<6830, 6831>>,
     <<6863, 6911>>, <<6989, 6991>>, <<7039, 7039>>, <<7156, 7163>>, <<7224, 7226>>,
     <<7242, 7244>>, <<7305, 7311>>, <<7355, 7356>>, <<7368, 7375>>, <<7419, 7423>>,
     <<7958, 7959>>, <<7966, 7967>>, <<8006, 8007>>, <<8014, 8015>>, <<8024, 8024>>,
     <<8026, 8026>>, <<8028, 8028>>, <<8030, 8030>>, <<8062, 8063>>, <<8117, 8117>>,
     <<8133, 8133>>, <<8148, 8149>>, <<8156, 8156>>, <<8176, 8177>>, <<8181, 8181>>,
     <<8191, 8207>>, <<8232, 8239>>, <<8287, 8303>>, <<8306, 8307>>, <<8335, 8335>>,
     <<8349, 8351>>, <<8385, 8399>>, <<8433, 8447>>, <<8588, 8591>>, <<9255, 9279>>,
     <<9291, 9311>>, <<11124, 11125>>, <<11158, 11158>>, <<11508, 11512>>, <<11558, 11558>>,
     <<11560, 11564>>, <<11566, 11567>>, <<11624, 11630>>, <<11633, 11646>>, <<11671, 11679>>,
     <<11687, 11687>>, <<11695, 11695>>, <<11703, 11703>>, <<11711, 11711>>, <<11719, 11719>>,
     <<11727, 11727>>, <<11735, 11735>>, <<11743, 11743>>, <<11870, 11903>>, <<11930, 11930>>,
     <<12020, 12031>>, <<12246, 12271>>, <<12284, 12288>>, <<12352, 12352>>, <<12439, 12440>>,
     <<12544, 12548>>, <<12592, 12592>>, <<12687, 12687>>, <<12772, 12783>>, <<12831, 12831>>,
     <<42125, 42127>>, <<42183, 42191>>, <<42540, 42559>>, <<42744, 42751>>, <<42955, 42959>>,
     <<42962, 42962>>, <<42964, 42964>>, <<42970, 42993>>, <<43053, 43055>>, <<43066, 43071>>,
     <<43128, 43135>>, <<43206, 43213>>, <<43226, 43231>>, <<43348, 43358>>, <<43389, 43391>>,
     <<43470, 43470>>, <<43482, 43485>>, <<43519, 43519>>, <<43575, 43583>>, <<43598, 43599>>,
     <<43610, 43611>>, <<43715, 43738>>, <<43767, 43776>>, <<43783, 43784>>, <<43791, 43792>>,
     <<43799, 43807>>, <<43815, 43815>>, <<43823, 43823>>, <<43884, 43887>>, <<44014, 44015>>,
     <<44026, 44031>>, <<55204, 55215>>, <<55239, 55242>>, <<55292, 63743>>, <<64110, 64111>>,
     <<64218, 64255>>, <<64263, 64274>>, <<64280, 64284>>, <<64311, 64311>>, <<64317, 64317>>,
     <<64319, 64319>>, <<64322, 64322>>, <<64325, 64325>>, <<64451, 64466>>, <<64912, 64913>>,
     <<64968, 64974>>, <<64976, 65007>>, <<65050, 65055>>, <<65107, 65107>>, <<65127, 65127>>,
     <<65132, 65135>>, <<65141, 65141>>, <<65277, 65280>>, <<65471, 65473>>, <<65480, 65481>>,
     <<65488, 65489>>, <<65496, 65497>>, <<65501, 65503>>, <<65511, 65511>>, <<65519, 65531>>,
     <<65534, 65535>>, <<65548, 65548>>, <<65575, 65575>>, <<65595, 65595>>, <<65598, 65598>>,
     <<65614, 65615>>, <<65630, 65663>>, <<65787, 65791>>, <<65795, 65798>>, <<65844, 65846>>,
     <<65935, 65935>>, <<65949, 65951>>, <<65953, 65999>>, <<66046, 66175>>, <<66205, 66207>>,
     <<66257, 66271>>, <<66300, 66303>>, <<66340, 66348>>, <<66379, 66383>>, <<66427, 66431>>,
     <<66462, 66462>>, <<66500, 66503>>, <<66518, 66559>>, <<66718, 66719>>, <<66730, 66735>>,
     <<66772, 66775>>, <<66812, 66815>>, <<66856, 66863>>, <<66916, 66926>>, <<66939, 66939>>,
     <<66955, 66955>>, <<66963, 66963>>, <<66966, 66966>>, <<66978, 66978>>, <<66994, 66994>>,
     <<67002, 67002>>, <<67005, 67071>>, <<67383, 67391>>, <<67414, 67423>>, <<67432, 67455>>,
     <<67462, 67462>>, <<67505, 67505>>, <<67515, 67583>>, <<67590, 67591>>, <<67593, 67593>>,
     <<67638, 67638>>, <<67641, 67643>>, <<67645, 67646>>, <<67670, 67670>>, <<67743, 67750>>,
     <<67760, 67807>>, <<67827, 67827>>, <<67830, 67834>>, <<67868, 67870>>, <<67898, 67902>>,
     <<67904, 67967>>, <<68024, 68027>>, <<68048, 68049>>, <<68100, 68100>>, <<68103, 68107>>,
     <<68116, 68116>>, <<68120, 68120>>, <<68150, 68151>>, <<68155, 68158>>, <<68169, 68175>>,
     <<68185, 68191>>, <<68256, 68287>>, <<68327, 68330>>, <<68343, 68351>>, <<68406, 68408>>,
     <<68438, 68439>>, <<68467, 68471>>, <<68498, 68504>>, <<68509, 68520>>, <<68528, 68607>>,
     <<68681, 68735>>, <<68787, 68799>>, <<68851, 68857>>, <<68904, 68911>>, <<68922, 69215>>,
     <<69247, 69247>>, <<69290, 69290>>, <<69294, 69295>>, <<69298, 69375>>, <<69416, 69423>>,
     <<69466, 69487>>, <<69514, 69551>>, <<69580, 69599>>, <<69623, 69631>>, <<69710, 69713>>,
     <<69750, 69758>>, <<69821, 69821>>, <<69827, 69839>>, <<69865, 69871>>, <<69882, 69887>>,
     <<69941, 69941>>, <<69960, 69967>>, <<70007, 70015>>, <<70112, 70112>>, <<70133, 70143>>,
     <<70162, 70162>>, <<70207, 70271>>, <<70279, 70279>>, <<70281, 70281>>, <<70286, 70286>>,
     <<70302, 70302>>, <<70314, 70319>>, <<70379, 70383>>, <<70394, 70399>>, <<70404, 70404>>,
     <<70413, 70414>>, <<70417, 70418>>, <<70441, 70441>>, <<70449, 70449>>, <<70452, 70452>>,
     <<70458, 70458>>, <<70469, 70470>>, <<70473, 70474>>, <<70478, 70479>>, <<70481, 70486>>,
     <<70488, 70492>>, <<70500, 70501>>, <<70509, 70511>>, <<70517, 70655>>, <<70748, 70748>>,
     <<70754, 70783>>, <<70856, 70863>>, <<70874, 71039>>, <<71094, 71095>>, <<71134, 71167>>,
     <<71237, 71247>>, <<71258, 71263>>, <<71277, 71295>>, <<71354, 71359>>, <<71370, 71423>>,
     <<71451, 71452>>, <<71468, 71471>>, <<71495, 71679>>, <<71740, 71839>>, <<71923, 71934>>,
     <<71943, 71944>>, <<71946, 71947>>, <<71956, 71956>>, <<71959, 71959>>, <<71990, 71990>>,
     <<71993, 71994>>, <<72007, 72015>>, <<72026, 72095>>, <<72104, 72105>>, <<72152, 72153>>,
     <<72165, 72191>>, <<72264, 72271>>, <<72355, 72367>>, <<72441, 72703>>, <<72713, 72713>>,
     <<72759, 72759>>, <<72774, 72783>>, <<72813, 72815>>, <<72848, 72849>>, <<72872, 72872>>,
     <<72887, 72959>>, <<72967, 72967>>, <<72970, 72970>>, <<73015, 73017>>, <<73019, 73019>>,
     <<73022, 73022>>, <<73032, 73039>>, <<73050, 73055>>, <<73062, 73062>>, <<73065, 73065>>,
     <<73103, 73103>>, <<73106, 73106>>, <<73113, 73119>>, <<73130, 73439>>, <<73465, 73647>>,
     <<73649, 73663>>, <<73714, 73726>>, <<74650, 74751>>, <<74863, 74863>>, <<74869, 74879>>,
     <<75076, 77711>>, <<77811, 77823>>, <<78895, 82943>>, <<83527, 92159>>, <<92729, 92735>>,
     <<92767, 92767>>, <<92778, 92781>>, <<92863, 92863>>, <<92874, 92879>>, <<92910, 92911>>,
     <<92918, 92927>>, <<92998, 93007>>, <<93018, 93018>>, <<93026, 93026>>, <<93048, 93052>>,
     <<93072, 93759>>, <<93851, 93951>>, <<94027, 94030>>, <<94088, 94094>>, <<94112, 94175>>,
     <<94181, 94191>>, <<94194, 94207>>, <<100344, 100351>>, <<101590, 101631>>, <<101641, 110575>>,
     <<110580, 110580>>, <<110588, 110588>>, <<110591, 110591>>, <<110883, 110927>>, <<110931, 110947>>,
     <<110952, 110959>>, <<111356, 113663>>, <<113771, 113775>>, <<113789, 113791>>, <<113801, 113807>>,
     <<113818, 113819>>, <<113824, 118527>>, <<118574, 118575>>, <<118599, 118607>>, <<118724, 118783>>,
     <<119030, 119039>>, <<119079, 119080>>, <<119155, 119162>>, <<119275, 119295>>, <<119366, 119519>>,
     <<119540, 119551>>, <<119639, 119647>>, <<119673, 119807>>, <<119893, 119893>>, <<119965, 119965>>,
     <<119968, 119969>>, <<119971, 119972>>, <<119975, 119976>>, <<119981, 119981>>, <<119994, 119994>>,
     <<119996, 119996>>, <<120004, 120004>>, <<120070, 120070>>, <<120075, 120076>>, <<120085, 120085>>,
     <<120093, 120093>>, <<120122, 120122>>, <<120127, 120127>>, <<120133, 120133>>, <<120135, 120137>>,
     <<120145, 120145>>, <<120486, 120487>>, <<120780, 120781>>, <<121484, 121498>>, <<121504, 121504>>,
     <<121520, 122623>>, <<122655, 122879>>, <<122887, 122887>>, <<122905, 122906>>, <<122914, 122914>>,
     <<122917, 122917>>, <<122923, 123135>>, <<123181, 123183>>, <<123198, 123199>>, <<123210, 123213>>,
     <<123216, 123535>>, <<123567, 123583>>, <<123642, 123646>>, <<123648, 124895>>, <<124903, 124903>>,
     <<124908, 124908>>, <<124911, 124911>>, <<124927, 124927>>, <<125125, 125126>>, <<125143, 125183>>,
     <<125260, 125263>>, <<125274, 125277>>, <<125280, 126064>>, <<126133, 126208>>, <<126270, 126463>>,
     <<126468, 126468>>, <<126496, 126496>>, <<126499, 126499>>, <<126501, 126502>>, <<126504, 126504>>,
     <<126515, 126515>>, <<126520, 126520>>, <<126522, 126522>>, <<126524, 126529>>, <<126531, 126534>>,
     <<126536, 126536>>, <<126538, 126538>>, <<126540, 126540>>, <<126544, 126544>>, <<126547, 126547>>,
     <<126549, 126550>>, <<126552, 126552>>, <<126554, 126554>>, <<126556, 126556>>, <<126558, 126558>>,
     <<126560, 126560>>, <<126563, 126563>>, <<126565, 126566>>, <<126571, 126571>>, <<126579, 126579>>,
     <<126584, 126584>>, <<126589, 126589>>, <<126591, 126591>>, <<126602, 126602>>, <<126620, 126624>>,
     <<126628, 126628>>, <<126634, 126634>>, <<126652, 126703>>, <<126706, 126975>>, <<127020, 127023>>,
     <<127124, 127135>>, <<127151, 127152>>, <<127168, 127168>>, <<127184, 127184>>, <<127222, 127231>>,
     <<127406, 127461>>, <<127491, 127503>>, <<127548, 127551>>, <<127561, 127567>>, <<127570, 127583>>,
     <<127590, 127743>>, <<128728, 128732>>, <<128749, 128751>>, <<128765, 128767>>, <<128884, 128895>>,
     <<128985, 128991>>, <<129004, 129007>>, <<129009, 129023>>, <<129036, 129039>>, <<129096, 129103>>,
     <<129114, 129119>>, <<129160, 129167>>, <<129198, 129199>>, <<129202, 129279>>, <<129620, 129631>>,
     <<129646, 129647>>, <<129653, 129655>>, <<129661, 129663>>, <<129671, 129679>>, <<129709, 129711>>,
     <<129723, 129727>>, <<129734, 129743>>, <<129754, 129759>>, <<129768, 129775>>, <<129783, 129791>>,
     <<129939, 129939>>, <<129995, 130031>>, <<130042, 131071>>, <<173792, 173823>>, <<177977, 177983>>,
     <<178206, 178207>>, <<183970, 183983>>, <<191457, 194559>>, <<195102, 196607>>, <<201547, 917759>>,
     <<918000, 1114111>>}

\* c.isprintable()
IsPrintable(c) == ~(\E r \in NotPrintableRanges : r[1] <= c /\ c <= r[2])

\* the n-th hexadecimal digit, lower case
HexDigit(n) ==
    <<48, 49, 50, 51, 52, 53, 54, 55, 56, 57, 97, 98, 99, 100, 101, 102>>[n + 1]

\* n in w hexadecimal digits
Hex(n, w) == [i \in 1..w |-> HexDigit((n \div (16 ^ (w - i))) % 16)]

\* repr of a character that is not printable and has no short escape:
\* \xNN, \uNNNN or \UNNNNNNNN by the size of the code point
HexEscape(c) ==
    IF c < 256 THEN <<92, 120>> \o Hex(c, 2)  \* \x
    ELSE IF c < 65536 THEN <<92, 117>> \o Hex(c, 4)  \* \u
    ELSE <<92, 85>> \o Hex(c, 8)  \* \U

\* the quote repr() puts around a text
ReprQuote(s) ==
    IF (\E i \in 1..Len(s) : s[i] = 39) /\ ~(\E i \in 1..Len(s) : s[i] = 34)  \* '  "
    THEN 34 ELSE 39  \* "  '

\* repr of one character inside the quote q
ReprChar(c, q) ==
    CASE c = 92 -> <<92, 92>>  \* \  \\
      [] c = q -> <<92, q>>  \* \
      [] c = 10 -> <<92, 110>>  \* U+000A  \n
      [] c = 9 -> <<92, 116>>  \* U+0009  \t
      [] c = 13 -> <<92, 114>>  \* U+000D  \r
      [] ~IsPrintable(c) -> HexEscape(c)
      [] OTHER -> <<c>>

RECURSIVE ReprChars(_, _)
ReprChars(s, q) ==
    IF s = <<>> THEN <<>> ELSE ReprChar(Head(s), q) \o ReprChars(Tail(s), q)

\* repr(s) of a str
ReprStr(s) == <<ReprQuote(s)>> \o ReprChars(s, ReprQuote(s)) \o <<ReprQuote(s)>>

RECURSIVE JoinRepr(_)
\* the inside of repr(list of str): 'a', 'b'
JoinRepr(l) ==
    IF l = <<>> THEN <<>>
    ELSE ReprStr(Head(l)) \o
         (IF Len(l) > 1 THEN <<44, 32>> ELSE <<>>) \o JoinRepr(Tail(l))  \* ", "

RECURSIVE NatText(_)
\* the decimal digits of a natural number
NatText(n) ==
    LET d == <<48, 49, 50, 51, 52, 53, 54, 55, 56, 57>>[(n % 10) + 1]  \* 0123456789
    IN IF n < 10 THEN <<d>> ELSE NatText(n \div 10) \o <<d>>

\* str(n) of an int
IntText(n) == IF n < 0 THEN <<45>> \o NatText(0 - n) ELSE NatText(n)  \* -

RECURSIVE PyRepr(_)
RECURSIVE JoinPairs(_)
\* the inside of repr(dict): 'k': value, 'k': value
JoinPairs(ps) ==
    IF ps = <<>> THEN <<>>
    ELSE ReprStr(Head(ps)[1]) \o <<58, 32>> \o PyRepr(Head(ps)[2]) \o  \* ": "
         (IF Len(ps) > 1 THEN <<44, 32>> ELSE <<>>) \o JoinPairs(Tail(ps))  \* ", "

\* repr(x)
PyRepr(x) ==
    CASE x.t = "str" -> ReprStr(x.v)
      [] x.t = "list" -> <<91>> \o JoinRepr(x.v) \o <<93>>  \* [  ]
      [] x.t = "null" -> <<78, 111, 110, 101>>  \* None
      [] x.t = "bool" -> IF x.v THEN <<84, 114, 117, 101>>  \* True
                         ELSE <<70, 97, 108, 115, 101>>  \* False
      [] x.t = "int" -> IntText(x.v)
      [] x.t = "object" -> <<123>> \o JoinPairs(x.v) \o <<125>>  \* {  }

\* str(x)
PyStr(x) == IF x.t = "str" THEN x.v ELSE PyRepr(x)

(***************************************************************************)
(* Text constants of the program                                           *)
(***************************************************************************)
ALL == <<20840, 37096>>  \* 全部

UNCATEGORIZED == <<26410, 20998, 31867>>  \* 未分类

NO_CHAPTER == <<26410, 20998, 31456>>  \* 未分章

SINGLE == <<21333, 36873, 39064>>  \* 单选题

MULTIPLE == <<22810, 36873, 39064>>  \* 多选题

SHORT == <<31616, 31572, 39064>>  \* 简答题

NO_ANSWER_MARK == <<26242, 26080>>  \* 暂无

(***************************************************************************)
(* String functions                                                        *)
(***************************************************************************)
\* the characters str.isspace() holds for: what strip() removes and \s matches
Whitespace ==
    {9, 10, 11, 12, 13, 28, 29, 30, 31, 32, 133, 160, 5760, 8192, 8193, 8194,
     8195, 8196, 8197, 8198, 8199, 8200, 8201, 8202, 8232, 8233, 8239, 8287,
     12288}

\* the characters \d matches (Unicode 14.0.0), the decimal digits of every
\* script, as ranges <<first, last>>
DecimalDigitRanges ==
    {<<48, 57>>, <<1632, 1641>>, <<1776, 1785>>, <<1984, 1993>>, <<2406, 2415>>,
     <<2534, 2543>>, <<2662, 2671>>, <<2790, 2799>>, <<2918, 2927>>, <<3046, 3055>>,
     <<3174, 3183>>, <<3302, 3311>>, <<3430, 3439>>, <<3558, 3567>>, <<3664, 3673>>,
     <<3792, 3801>>, <<3872, 3881>>, <<4160, 4169>>, <<4240, 4249>>, <<6112, 6121>>,
     <<6160, 6169>>, <<6470, 6479>>, <<6608, 6617>>, <<6784, 6793>>, <<6800, 6809>>,
     <<6992, 7001>>, <<7088, 7097>>, <<7232, 7241>>, <<7248, 7257>>, <<42528, 42537>>,
     <<43216, 43225>>, <<43264, 43273>>, <<43472, 43481>>, <<43504, 43513>>, <<43600, 43609>>,
     <<44016, 44025>>, <<65296, 65305>>, <<66720, 66729>>, <<68912, 68921>>, <<69734, 69743>>,
     <<69872, 69881>>, <<69942, 69951>>, <<70096, 70105>>, <<70384, 70393>>, <<70736, 70745>>,
     <<70864, 70873>>, <<71248, 71257>>, <<71360, 71369>>, <<71472, 71481>>, <<71904, 71913>>,
     <<72016, 72025>>, <<72784, 72793>>, <<73040, 73049>>, <<73120, 73129>>, <<92768, 92777>>,
     <<92864, 92873>>, <<93008, 93017>>, <<120782, 120831>>, <<123200, 123209>>, <<123632, 123641>>,
     <<125264, 125273>>, <<130032, 130041>>}

IsSpace(c) == c \in Whitespace

IsDigit(c) == \E r \in DecimalDigitRanges : r[1] <= c /\ c <= r[2]

RECURSIVE lstrip(_)
lstrip(s) ==
    IF s # <<>> /\ IsSpace(Head(s)) THEN lstrip(Tail(s)) ELSE s

RECURSIVE rstrip(_)
rstrip(s) ==
    IF s # <<>> /\ IsSpace(s[Len(s)]) THEN rstrip(SubSeq(s, 1, Len(s) - 1)) ELSE s

\* s.strip()
strip(s) == rstrip(lstrip(s))

\* sub in s
Contains(sub, s) ==
    \E i \in 0..(Len(s) - Len(sub)) : SubSeq(s, i + 1, i + Len(sub)) = sub

RECURSIVE ReplaceChars(_)
\* the chain of replace() calls of normalize_text, character by character
ReplaceChars(s) ==
    IF s = <<>> THEN <<>>
    ELSE LET c == Head(s)
             r == CASE c = 65307 -> <<59>>  \* ；  ;
                    [] c = 65292 -> <<44>>  \* ，  ,
                    [] c = 12290 -> <<>>  \* 。
                    [] c = 65288 -> <<40>>  \* （  (
                    [] c = 65289 -> <<41>>  \* ）  )
                    [] OTHER -> <<c>>
         IN r \o ReplaceChars(Tail(s))

normalize_text(s) ==
    ReplaceChars(SelectSeq(strip(s), LAMBDA c : ~IsSpace(c)))

\* the character class of the split pattern
IsDelim(c) == c \in {59, 44, 65292, 12289} \/ IsSpace(c)  \* ;,，、

RECURSIVE SplitFrom(_, _, _, _)
SplitFrom(s, i, cur, out) ==
    IF i > Len(s) THEN Append(out, cur)
    ELSE IF IsDelim(s[i])
         THEN IF i < Len(s) /\ IsDelim(s[i + 1])
              THEN SplitFrom(s, i + 1, cur, out)
              ELSE SplitFrom(s, i + 1, <<>>, Append(out, cur))
         ELSE SplitFrom(s, i + 1, Append(cur, s[i]), out)

\* re.split on one or more delimiters: the pieces, empty ones included
re_split(s) == SplitFrom(s, 1, <<>>, <<>>)

RECURSIVE StripAll(_)
StripAll(ps) ==
    IF ps = <<>> THEN <<>> ELSE <<strip(Head(ps))>> \o StripAll(Tail(ps))

\* [p.strip() for p in re.split(...) if p.strip()]
SplitParts(s) ==
    StripAll(SelectSeq(re_split(s), LAMBDA p : strip(p) # <<>>))

\* set(list)
SetOf(l) == {l[i] : i \in 1..Len(l)}

(***************************************************************************)
(* Facet resolution                                                        *)
(***************************************************************************)
resolve_course(q) ==
    LET c == strip(PyStr(IF "course" \in DOMAIN q THEN q.course
                         ELSE Str(UNCATEGORIZED)))
    IN IF c # <<>> THEN c ELSE UNCATEGORIZED

RECURSIVE SkipSpaces(_, _)
\* the first index >= i that holds no whitespace (Len(s) + 1 when there is none)
SkipSpaces(s, i) ==
    IF i <= Len(s) /\ IsSpace(s[i]) THEN SkipSpaces(s, i + 1) ELSE i

RECURSIVE SkipDigits(_, _)
SkipDigits(s, i) ==
    IF i <= Len(s) /\ IsDigit(s[i]) THEN SkipDigits(s, i + 1) ELSE i

\* the digits of a chapter tag starting at index i, <<>> when none starts there
ChapterTagAt(s, i) ==
    LET At(j, c) == j <= Len(s) /\ s[j] = c
        j1 == SkipSpaces(s, i + 1)
        j2 == SkipSpaces(s, j1 + 1)
        j3 == SkipDigits(s, j2)
        j4 == SkipSpaces(s, j3)
        j5 == SkipSpaces(s, j4 + 1)
    IN IF At(i, 12304) /\ At(j1, 31532) /\ j3 > j2 /\ At(j4, 31456)  \* 【  第  章
          /\ At(j5, 12305)  \* 】
       THEN SubSeq(s, j2, j3 - 1)
       ELSE <<>>

resolve_chapter(q) ==
    LET ch == Get(q, "chapter")
        text == PyStr(IF "question" \in DOMAIN q THEN q.question ELSE Str(<<>>))
        hits == {i \in 1..Len(text) : ChapterTagAt(text, i) # <<>>}
        first == CHOOSE i \in hits : \A j \in hits : i <= j
    IN IF ch.t # "null" /\ strip(PyStr(ch)) # <<>> THEN strip(PyStr(ch))
       ELSE IF hits # {}
            THEN <<31532>> \o ChapterTagAt(text, first) \o <<31456>>  \* 第  章
            ELSE NO_CHAPTER

\* q.get("options") or []
OptionsOf(q) ==
    LET o == Get(q, "options") IN IF Truthy(o) THEN o.v ELSE <<>>

resolve_qtype(q) ==
    LET qt == Get(q, "qtype")
    IN IF Truthy(qt) /\ strip(PyStr(qt)) # <<>> THEN strip(PyStr(qt))
       ELSE IF Truthy(Get(q, "options")) THEN SINGLE ELSE SHORT

(***************************************************************************)
(* Grading                                                                 *)
(***************************************************************************)
\* the threshold taken strictly
MeetsThresholdStrict(hit, n) == 10 * hit > 8 * n

\* hit / len(parts) >= 0.8
MeetsThreshold(hit, n) == 10 * hit >= 8 * n

\* the keyword fragments of a stored answer
KeywordParts(answer) ==
    SelectSeq(SplitParts(answer),
              LAMBDA p : Len(p) >= 2 /\ ~Contains(NO_ANSWER_MARK, p))

\* the number of fragments whose normalized text occurs in u
Hits(parts, u) ==
    Len(SelectSeq(parts, LAMBDA p : Contains(normalize_text(p), u)))

\* grade_subjective(user, answer), both of them str
grade_subjective(user, answer) ==
    IF answer = <<>> \/ Contains(NO_ANSWER_MARK, answer) THEN "ungraded"
    ELSE LET u == normalize_text(user)
             a == normalize_text(answer)
             parts == KeywordParts(answer)
         IN IF u = <<>> THEN "incorrect"
            ELSE IF u = a THEN "correct"
            ELSE IF parts # <<>> /\ MeetsThreshold(Hits(parts, u), Len(parts))
                 THEN "correct"
                 ELSE "incorrect"

Verdict(b) == IF b THEN "correct" ELSE "incorrect"

\* the single-choice branch of the submit handler
grade_single(ua, answer) ==
    IF answer.t = "str" /\ strip(answer.v) # <<>>
    THEN Verdict(ua = answer)
    ELSE "ungraded"

\* the multi-choice branch of the submit handler
grade_multiple(ua, answer) ==
    IF answer.t = "list" THEN Verdict(SetOf(ua.v) = SetOf(answer.v))
    ELSE IF answer.t = "str" /\ strip(answer.v) # <<>>
         THEN Verdict(SetOf(ua.v) = SetOf(SplitParts(answer.v)))
         ELSE "ungraded"

\* the free-text branch of the submit handler
grade_text(ua, answer) ==
    grade_subjective(PyStr(ua), IF answer.t # "null" THEN PyStr(answer) ELSE <<>>)

\* the submit handler's verdict on an accepted answer
grade(qtype, ua, answer) ==
    IF qtype = SINGLE THEN grade_single(ua, answer)
    ELSE IF qtype = MULTIPLE THEN grade_multiple(ua, answer)
    ELSE grade_text(ua, answer)

\* the validation with the multi-choice check left out
RejectionSingleOnly(qtype, ua) ==
    IF qtype = SINGLE /\ ua.t = "null" THEN "select_one" ELSE "none"

\* the submit handler's validation: the warning to raise, "none" to go on
Rejection(qtype, ua) ==
    IF qtype = SINGLE /\ ua.t = "null" THEN "select_one"
    ELSE IF qtype = MULTIPLE /\ ~Truthy(ua) THEN "select_some"
    ELSE "none"

(***************************************************************************)
(* Bank loader                                                             *)
(*                                                                         *)
(* data_dir is the data/ folder: whether it exists and the files in it,    *)
(* each a name and the document its text parses to.  load_outcome is       *)
(* "pending" before load_quiz_data() has run, then "loaded" or             *)
(* "FileNotFoundError".                                                    *)
(***************************************************************************)
QUIZ_PREFIX == <<113, 117, 105, 122, 95>>  \* quiz_

JSON_SUFFIX == <<46, 106, 115, 111, 110>>  \* .json

\* the name matches the pattern quiz_*.json
GlobMatches(name) ==
    /\ Len(name) >= Len(QUIZ_PREFIX) + Len(JSON_SUFFIX)
    /\ SubSeq(name, 1, Len(QUIZ_PREFIX)) = QUIZ_PREFIX
    /\ SubSeq(name, Len(name) - Len(JSON_SUFFIX) + 1, Len(name)) = JSON_SUFFIX

RECURSIVE NameLess(_, _)
\* a < b, as str: by code point, a proper prefix first
NameLess(a, b) ==
    IF b = <<>> THEN FALSE
    ELSE IF a = <<>> THEN TRUE
    ELSE IF Head(a) # Head(b) THEN Head(a) < Head(b)
    ELSE NameLess(Tail(a), Tail(b))

RECURSIVE SortedFiles(_)
\* sorted(...) of a set of files, by name
SortedFiles(S) ==
    IF S = {} THEN <<>>
    ELSE LET f == CHOOSE x \in S : \A y \in S \ {x} : NameLess(x.name, y.name)
         IN <<f>> \o SortedFiles(S \ {f})

\* files = sorted(data_dir.glob("quiz_*.json"))
GlobFiles(dir) ==
    IF dir.exists THEN SortedFiles({f \in dir.files : GlobMatches(f.name)})
    ELSE <<>>

\* it.setdefault("_source", name): the record with the key added when absent
SetDefaultSource(rec, name) ==
    IF "_source" \in DOMAIN rec THEN rec
    ELSE [k \in DOMAIN rec \cup {"_source"} |->
             IF k = "_source" THEN Str(name) ELSE rec[k]]

RECURSIVE TaggedDicts(_, _)
\* the dict items of a list document, each with its _source set by default
TaggedDicts(items, name) ==
    IF items = <<>> THEN <<>>
    ELSE (IF Head(items).t = "dict"
          THEN <<SetDefaultSource(Head(items).v, name)>>
          ELSE <<>>) \o TaggedDicts(Tail(items), name)

REPAIR_HINT ==
    <<35831, 20462, 22797, 35813, 32, 74, 83, 79, 78, 32,  \* "请修复该 JSON "
      25991, 20214, 21518, 37325, 35797, 12290>>  \* 文件后重试。

\* the placeholder question appended for a file that does not parse
ErrorRecord(name) ==
    [course |-> Str(<<39064, 24211, 38169, 35823>>),  \* 题库错误
     chapter |-> Str(<<35831, 26816, 26597, 32, 74, 83, 79, 78>>),  \* "请检查 JSON"
     qtype |-> Str(SINGLE),
     question |-> Str(<<39064, 24211, 25991, 20214, 32>> \o name \o  \* "题库文件 "
                      <<32, 26080, 27861, 35299, 26512, 65288,  \* " 无法解析（"
                        74, 83, 79, 78, 32, 26684, 24335, 38169,  \* "JSON 格式错"
                        35823, 65289, 12290>>),  \* 误）。
     options |-> List(<<REPAIR_HINT>>),
     answer |-> Str(REPAIR_HINT),
     explanation |-> Str(<<35831, 26816, 26597, 36887, 21495,  \* 请检查逗号
                           12289, 24341, 21495, 12289, 25324,  \* 、引号、括
                           21495, 26159, 21542, 23436, 25972,  \* 号是否完整
                           65307, 30830, 20445, 25972, 20010,  \* ；确保整个
                           25991, 20214, 26159, 19968, 20010,  \* 文件是一个
                           32, 108, 105, 115, 116, 91, 100, 105, 99, 116,  \* " list[dict"
                           93, 12290>>),  \* ]。
     _source |-> Str(name)]

\* a file that does not parse left out without a trace
FileRecordsSkipMalformed(f) ==
    IF f.doc.t # "list" THEN <<>> ELSE TaggedDicts(f.doc.v, f.name)

\* what one file adds to all_q
FileRecords(f) ==
    IF f.doc.t = "malformed" THEN <<ErrorRecord(f.name)>>
    ELSE IF f.doc.t # "list" THEN <<>>
    ELSE TaggedDicts(f.doc.v, f.name)

RECURSIVE all_q(_)
\* the loop over the files
all_q(files) ==
    IF files = <<>> THEN <<>> ELSE FileRecords(Head(files)) \o all_q(Tail(files))

\* load_quiz_data(): the exception raised ("none" when it returns) and the
\* list returned
load_quiz_data(dir) ==
    IF ~dir.exists \/ GlobFiles(dir) = <<>>
    THEN [raised |-> "FileNotFoundError", bank |-> <<>>]
    ELSE [raised |-> "none", bank |-> all_q(GlobFiles(dir))]

(***************************************************************************)
(* Session state                                                           *)
(***************************************************************************)
\* active_state_key before the first run of the script (None)
NoKey == <<>>

Progress(i, sc, sub, last) ==
    [current_index |-> i, score |-> sc, submitted |-> sub, last_is_correct |-> last]

\* the values load_state gives a signature that holds no progress
Fresh == Progress(0, 0, FALSE, "ungraded")

\* the four live fields of st.session_state
Live == Progress(current_index, score, submitted, last_is_correct)

\* progress_map[k] = st
save_state(pm, k, st) ==
    [x \in DOMAIN pm \cup {k} |-> IF x = k THEN st ELSE pm[x]]

\* the live fields load_state sets
load_state(pm, k) == IF k \in DOMAIN pm THEN pm[k] ELSE Fresh

(***************************************************************************)
(* Filters                                                                 *)
(***************************************************************************)
Questions == {quiz_data[i] : i \in 1..Len(quiz_data)}

CourseMatches(q, c) == c = ALL \/ resolve_course(q) = c

ChapterMatches(q, ch) == ch = ALL \/ resolve_chapter(q) = ch

QtypeMatches(q, t) == t = ALL \/ resolve_qtype(q) = t

all_courses == {resolve_course(q) : q \in Questions}

\* the chapter box offering the chapters of every course
chapters_of_all(c) == {resolve_chapter(q) : q \in Questions}

chapters(c) == {resolve_chapter(q) : q \in {x \in Questions : CourseMatches(x, c)}}

qtypes(c, ch) ==
    {resolve_qtype(q) :
        q \in {x \in Questions : CourseMatches(x, c) /\ ChapterMatches(x, ch)}}

\* the filtered list of a selection <<course, chapter, qtype>>
filtered(sel) ==
    SelectSeq(quiz_data,
              LAMBDA q : /\ CourseMatches(q, sel[1])
                         /\ ChapterMatches(q, sel[2])
                         /\ QtypeMatches(q, sel[3]))

\* the state key of a selection
state_key(sel) == sel[1] \o <<58, 58>> \o sel[2] \o <<58, 58>> \o sel[3]  \* ::  ::

\* the selection is one the three select boxes offer
IsOffered(sel) ==
    /\ sel[1] \in {ALL} \cup all_courses
    /\ sel[2] \in {ALL} \cup chapters(sel[1])
    /\ sel[3] \in {ALL} \cup qtypes(sel[1], sel[2])

total == Len(filtered(selected))

\* the question on the page
CurrentQuestion == filtered(selected)[current_index + 1]

\* the filter-switch block: the progress map and the live fields after it
SwitchBlock(key) ==
    IF active_state_key # key
    THEN LET pm == IF active_state_key # NoKey
                   THEN save_state(progress_map, active_state_key, Live)
                   ELSE progress_map
         IN [pm |-> pm, st |-> load_state(pm, key)]
    ELSE [pm |-> progress_map, st |-> Live]

SetLive(st) ==
    /\ current_index' = st.current_index
    /\ score' = st.score
    /\ submitted' = st.submitted
    /\ last_is_correct' = st.last_is_correct

\* the progress bar is given position / total; st.progress takes a value from
\* 0.0 to 1.0 and raises on any other, which ends the script run there: the
\* sidebar is on the page, nothing below the bar is
ProgressBarRaises == total > 0 /\ current_index > total

\* the position is at or past the end of the filtered list
PastEnd == active_state_key # NoKey /\ total > 0 /\ current_index >= total

\* the page the script renders: a question, or the finish page with its
\* restart button, which the script reaches when the progress bar took its
\* value
OnQuestion == active_state_key # NoKey /\ total > 0 /\ current_index < total

OnFinish == PastEnd /\ ~ProgressBarRaises

(***************************************************************************)
(* Bounded inputs                                                          *)
(***************************************************************************)
MaxAnsLen == 3

MaxFrags == 5

MaxUserPieces == 2

\* the questions of a bank drawn from MainPool, at most
MaxBank == 2

\* all sequences over S of length at most n
SeqsUpTo(S, n) == UNION {[1..k -> S] : k \in 0..n}

RECURSIVE Join(_, _)
\* sep.join(ps)
Join(ps, sep) ==
    IF ps = <<>> THEN <<>>
    ELSE IF Len(ps) = 1 THEN Head(ps)
    ELSE Head(ps) \o sep \o Join(Tail(ps), sep)

OptA == <<65>>  \* A

OptB == <<66>>  \* B

Opts == <<OptA, OptB>>

\* stored answers of the choice questions
ChoiceAnswers ==
    {Null}
    \cup {Str(s) : s \in SeqsUpTo({65, 66, 32, 12288, 44, 65307},  \* A B SP U+3000 , ；
                                  MaxAnsLen)}
    \cup {Str(<<65, 13, 66>>)}  \* A\rB
    \cup {List(l) : l \in SeqsUpTo({OptA, OptB}, 2)}

FragAB == <<97, 98>>  \* ab

FragCD == <<99, 100>>  \* cd

\* a text with an apostrophe
Quoted == <<105, 116, 39, 115>>  \* it's

\* a text of one character that is not printable, the zero width space
ZeroWidth == <<8203>>  \* U+200B

\* stored answers of the free-text questions
TextAnswers ==
    {Null, Str(<<32>>), List(<<>>), List(<<OptA>>), Str(NO_ANSWER_MARK),
     Str(FragAB \o <<59>> \o NO_ANSWER_MARK),  \* ab;暂无
     Str(FragAB \o <<65307>> \o FragCD),  \* ab；cd
     Str(<<12290, 12290>>), Str(<<97, 32, 98>>),  \* 。。  "a b"
     Str(<<12288>>), Str(FragAB \o <<12288>> \o FragCD),  \* U+3000  ab U+3000 cd
     List(<<Quoted>>), List(<<ZeroWidth>>), Num(12), Bool(TRUE),
     Object(<<<<FragAB, Str(FragCD)>>>>)}
    \cup {Str(Join(fs, <<59>>)) : fs \in SeqsUpTo({FragAB, FragCD, <<101>>}, MaxFrags)}

\* what the user may type into a free-text widget
UserTexts ==
    {<<32>>, <<91, 93>>, <<97, 32, 98>>, FragAB \o <<59>> \o FragCD,  \* SP  []  "a b"  ab;cd
     <<97, 12288, 98>>, <<91, 34>> \o Quoted \o <<34, 93>>,  \* a U+3000 b  ["it's"]
     <<91, 39>> \o Quoted \o <<39, 93>>, <<49, 50>>, <<84, 114, 117, 101>>,  \* ['it's']  12  True
     <<91, 39>> \o ZeroWidth \o <<39, 93>>,  \* [' U+200B ']
     <<91, 39, 92, 117, 50, 48, 48, 98, 39, 93>>}  \* ['\u200b']
    \cup {Join(ps, <<>>) : ps \in SeqsUpTo({FragAB, FragCD}, MaxUserPieces)}

WithAnswers(base, answers) ==
    {base} \cup {[k \in DOMAIN base \cup {"answer"} |->
                     IF k = "answer" THEN a ELSE base[k]] : a \in answers}

SingleBase == [qtype |-> Str(SINGLE), options |-> List(Opts)]

MultipleBase == [qtype |-> Str(MULTIPLE), options |-> List(Opts)]

TextBase == [question |-> Str(<<113>>)]  \* q

\* the questions the grading specification draws its one-question bank from
GradePool ==
    WithAnswers(SingleBase, ChoiceAnswers)
    \cup WithAnswers(MultipleBase, ChoiceAnswers)
    \cup WithAnswers(TextBase, TextAnswers)

\* the selections a multiselect over opts can return, in click order
Selections(opts) ==
    {l \in SeqsUpTo(SetOf(opts), Len(opts)) :
        \A i, j \in 1..Len(l) : i # j => l[i] # l[j]}

\* the values the answer widget of question q can hand to the submit handler
WidgetValues(q) ==
    IF resolve_qtype(q) = SINGLE
    THEN {Null} \cup {Str(o) : o \in SetOf(OptionsOf(q))}
    ELSE IF resolve_qtype(q) = MULTIPLE
         THEN {List(l) : l \in Selections(OptionsOf(q))}
         ELSE {Str(s) : s \in UserTexts}

\* a question text with the tag the chapter is read from
TaggedText == Str(<<12304, 31532, 49, 31456, 12305, 113>>)  \* 【第1章】q

\* a single-choice question that comes without options: the radio has nothing
\* to select and every submit is turned down
NoOptionsQ == [course |-> Str(<<120>>), qtype |-> Str(SINGLE)]  \* x

\* a single-choice question of two options
SingleQ ==
    [course |-> Str(<<120>>), qtype |-> Str(SINGLE), options |-> List(Opts),  \* x
     answer |-> Str(OptA)]

\* the questions the banks of a session on one selection are built from: one
\* of each answer widget, and one no answer to which is accepted
MainPool ==
    {SingleQ,
     NoOptionsQ,
     [course |-> Str(<<120>>), qtype |-> Str(MULTIPLE), options |-> List(Opts),  \* x
      answer |-> List(<<OptB, OptA>>)],
     [course |-> Str(<<121>>),  \* y
      question |-> TaggedText,
      answer |-> Str(FragAB)]}

MaxFiles == 2

MaxItems == 2

\* quiz_<i>.json
FileName(i) ==
    QUIZ_PREFIX \o <<(<<49, 50, 51, 52, 53, 54, 55, 56, 57>>)[i]>>  \* 123456789
                \o JSON_SUFFIX

\* a file of the folder the pattern does not match
OtherName == <<110, 111, 116, 101, 115>> \o JSON_SUFFIX  \* notes

RecPlain == [question |-> Str(<<113>>)]  \* q

\* a record that comes with a _source of its own
RecTagged == [question |-> Str(<<113>>), _source |-> Str(<<111>>)]  \* q  o

\* the items of a list document: objects and one value that is no object
ItemPool == {Dict(RecPlain), Dict(RecTagged), Str(<<120>>)}  \* x

\* the documents of a bank file: unparseable, an object wrapping a list under
\* "data", a bare object, and lists
Docs ==
    {Malformed, Dict([data |-> List(<<Dict(RecPlain)>>)]), Dict(RecPlain)}
    \cup {List(l) : l \in SeqsUpTo(ItemPool, MaxItems)}

NoFile == [t |-> "nofile", v |-> <<>>]

\* the folders load_quiz_data() is run on
LoadDirs ==
    {[exists |-> FALSE, files |-> {}]}
    \cup {[exists |-> TRUE,
           files |-> {[name |-> FileName(i), doc |-> pick[i]] :
                         i \in {j \in 1..MaxFiles : pick[j] # NoFile}}
                     \cup extra] :
             pick \in [1..MaxFiles -> Docs \cup {NoFile}],
             extra \in {{}, {[name |-> OtherName, doc |-> List(<<Dict(RecPlain)>>)]}}}

\* the folder holding bank b in one file
BankDir(b) ==
    [exists |-> TRUE,
     files |-> {[name |-> FileName(1),
                 doc |-> List([i \in 1..Len(b) |-> Dict(b[i])])]}]


\* two questions with the course and the chapter named like the entry of the
\* boxes that stands for all of them: the type box alone tells signatures
\* apart
TypeBank ==
    <<[course |-> Str(ALL), chapter |-> Str(ALL), qtype |-> Str(SINGLE),
       options |-> List(Opts), answer |-> Str(OptA)],
      [course |-> Str(ALL), chapter |-> Str(ALL), qtype |-> Str(MULTIPLE),
       options |-> List(<<OptA>>), answer |-> List(<<OptA>>)]>>

\* one question with the course named like the entry for all: the chapter box
\* and the type box tell signatures apart
ChapterBank ==
    <<[course |-> Str(ALL), qtype |-> Str(SINGLE), options |-> List(Opts),
       answer |-> Str(OptA)]>>

\* one question with the chapter named like the entry for all: the course box
\* and the type box tell signatures apart
CourseBank ==
    <<[course |-> Str(<<120>>), chapter |-> Str(ALL), options |-> List(Opts),  \* x
       answer |-> Str(OptA)]>>

\* one question of a course, without chapter: every box tells signatures
\* apart; the question is single-choice and comes without options
PlainBank == <<NoOptionsQ>>

\* two courses, each with a chapter and a type of its own: course x with the
\* chapter named like the entry for all, course y with chapter 1 (by the
\* question text); the questions come without options
TwoCourseBank ==
    <<[course |-> Str(<<120>>), chapter |-> Str(ALL), qtype |-> Str(SINGLE)],  \* x
      [course |-> Str(<<121>>), question |-> TaggedText,  \* y
       qtype |-> Str(MULTIPLE)]>>

\* a chapter and a type that hold the separator of the state key
SepChapter == ALL \o <<58, 58, 117>>  \* 全部::u

SepQtype == <<117, 58, 58>> \o SINGLE  \* u::单选题

\* a bank in which two selections give one state key: chapter 全部::u with
\* type 单选题 (two questions) and every chapter with type u::单选题 (one
\* question); the course is named like the entry for all
SharedKeyBank ==
    <<[course |-> Str(ALL), chapter |-> Str(SepChapter), qtype |-> Str(SINGLE),
       options |-> List(<<OptA>>), answer |-> Str(OptA)],
      [course |-> Str(ALL), chapter |-> Str(SepChapter), qtype |-> Str(SINGLE),
       options |-> List(<<OptA>>), answer |-> Str(OptA)],
      [course |-> Str(ALL), chapter |-> Str(SepChapter),
       qtype |-> Str(SepQtype)]>>

\* the same with one question for either selection
SharedPairBank ==
    <<[course |-> Str(ALL), chapter |-> Str(SepChapter), qtype |-> Str(SINGLE),
       options |-> List(<<OptA>>), answer |-> Str(OptA)],
      [course |-> Str(ALL), chapter |-> Str(SepChapter),
       qtype |-> Str(SepQtype)]>>

\* the banks of the shared-key specification: the bank with the shared key and
\* a bank the course box has entries for
SharedBanks == {SharedKeyBank, CourseBank}

\* the banks of a session on one selection
MainBanks == SeqsUpTo(MainPool, MaxBank)

\* the banks of the progress specification, in which the selection changes:
\* banks whose selections each have a state key of their own, and one in which
\* two selections share theirs
SwitchBanks ==
    {<<>>, TypeBank, ChapterBank, CourseBank, PlainBank, TwoCourseBank,
     SharedPairBank}

(***************************************************************************)
(* The script: one action per user interaction, run to its st.rerun() or   *)
(* to the end of the script                                                *)
(***************************************************************************)
\* init_state() on an empty session, the bank loaded
InitSession ==
    /\ selected = <<ALL, ALL, ALL>>
    /\ current_index = 0
    /\ score = 0
    /\ submitted = FALSE
    /\ last_is_correct = "ungraded"
    /\ progress_map = [k \in {} |-> Fresh]
    /\ active_state_key = NoKey
    /\ user_answer = Null
    /\ notice = "none"

\* the bank loaded, from a folder that holds one bank file
Loaded(dirs) ==
    /\ data_dir \in dirs
    /\ load_outcome = "loaded"
    /\ quiz_data = load_quiz_data(data_dir).bank

Init ==
    /\ Loaded({BankDir(b) : b \in SwitchBanks})
    /\ InitSession

LiveInit ==
    /\ Loaded({BankDir(b) : b \in MainBanks})
    /\ InitSession

SharedInit ==
    /\ Loaded({BankDir(b) : b \in SharedBanks})
    /\ InitSession

GradeInit ==
    /\ Loaded({BankDir(<<q>>) : q \in GradePool})
    /\ InitSession

\* the session before load_quiz_data() has run
LoadInit ==
    /\ data_dir \in LoadDirs
    /\ load_outcome = "pending"
    /\ quiz_data = <<>>
    /\ InitSession

\* quiz_data = load_quiz_data(), an exception ending the script
Load ==
    /\ load_outcome = "pending"
    /\ LET r == load_quiz_data(data_dir)
       IN /\ load_outcome' = IF r.raised = "none" THEN "loaded" ELSE r.raised
          /\ quiz_data' = r.bank
    /\ UNCHANGED <<data_dir, selected, current_index, score, submitted,
                   last_is_correct, progress_map, active_state_key,
                   user_answer, notice>>

\* the score counting every graded answer, right or wrong
NewScoreGraded(sc, verdict) == IF verdict # "ungraded" THEN sc + 1 ELSE sc

\* score += 1 when correct is True
NewScore(sc, verdict) == IF verdict = "correct" THEN sc + 1 ELSE sc

\* the first run of the script: every select box at its first entry
FirstRun ==
    /\ load_outcome = "loaded"
    /\ active_state_key = NoKey
    /\ LET r == SwitchBlock(state_key(selected))
       IN /\ progress_map' = r.pm
          /\ SetLive(r.st)
    /\ active_state_key' = state_key(selected)
    /\ user_answer' = Null
    /\ notice' = "none"
    /\ UNCHANGED <<data_dir, load_outcome, quiz_data, selected>>

\* the script run that follows the change of a select box, the boxes then
\* returning sel: the switch block saves the signature left and loads the one
\* entered
SelectFilter(sel) ==
    /\ active_state_key # NoKey
    /\ IsOffered(sel)
    /\ sel # selected
    /\ LET r == SwitchBlock(state_key(sel))
       IN /\ progress_map' = r.pm
          /\ SetLive(r.st)
    /\ active_state_key' = state_key(sel)
    /\ selected' = sel
    /\ user_answer' = Null
    /\ notice' = "none"
    /\ UNCHANGED <<data_dir, load_outcome, quiz_data>>

\* the sidebar reset button
SidebarReset ==
    /\ active_state_key # NoKey
    /\ LET pm == save_state(progress_map, state_key(selected), Fresh)
       IN /\ progress_map' = pm
          /\ SetLive(load_state(pm, state_key(selected)))
    /\ active_state_key' = state_key(selected)
    /\ user_answer' = Null
    /\ notice' = "none"
    /\ UNCHANGED <<data_dir, load_outcome, quiz_data, selected>>

\* the restart button keeping the score
RestartKeepsScore ==
    /\ OnFinish
    /\ SetLive(Progress(0, score, FALSE, "ungraded"))
    /\ progress_map' = save_state(progress_map, state_key(selected),
                                  Progress(0, score, FALSE, "ungraded"))
    /\ user_answer' = Null
    /\ notice' = "none"
    /\ UNCHANGED <<data_dir, load_outcome, quiz_data, selected, active_state_key>>

\* the restart button of the finish page
Restart ==
    /\ OnFinish
    /\ SetLive(Fresh)
    /\ progress_map' = save_state(progress_map, state_key(selected), Fresh)
    /\ user_answer' = Null
    /\ notice' = "none"
    /\ UNCHANGED <<data_dir, load_outcome, quiz_data, selected, active_state_key>>

\* the submit button, the answer widget holding ua
Submit(ua) ==
    /\ OnQuestion
    /\ ~submitted
    /\ LET qtype == resolve_qtype(CurrentQuestion)
           answer == Get(CurrentQuestion, "answer")
           warning == Rejection(qtype, ua)
           correct == grade(qtype, ua, answer)
           sc == NewScore(score, correct)
       IN IF warning # "none"
          THEN /\ notice' = warning
               /\ UNCHANGED <<current_index, score, submitted, last_is_correct,
                              progress_map>>
          ELSE /\ notice' = "none"
               /\ submitted' = TRUE
               /\ last_is_correct' = correct
               /\ score' = sc
               /\ current_index' = current_index
               /\ progress_map' =
                      save_state(progress_map, state_key(selected),
                                 Progress(current_index, sc, TRUE, correct))
    /\ user_answer' = ua
    /\ UNCHANGED <<data_dir, load_outcome, quiz_data, selected, active_state_key>>

\* the next-question button leaving the verdict of the question behind
AdvanceKeepsVerdict ==
    /\ OnQuestion
    /\ submitted
    /\ current_index' = current_index + 1
    /\ submitted' = FALSE
    /\ last_is_correct' = last_is_correct
    /\ score' = score
    /\ progress_map' =
           save_state(progress_map, state_key(selected),
                      Progress(current_index + 1, score, FALSE, last_is_correct))
    /\ user_answer' = Null
    /\ notice' = "none"
    /\ UNCHANGED <<data_dir, load_outcome, quiz_data, selected, active_state_key>>

\* the next-question button leaving the position where it is
AdvanceStays ==
    /\ OnQuestion
    /\ submitted
    /\ current_index' = current_index
    /\ submitted' = FALSE
    /\ last_is_correct' = "ungraded"
    /\ score' = score
    /\ progress_map' =
           save_state(progress_map, state_key(selected),
                      Progress(current_index, score, FALSE, "ungraded"))
    /\ user_answer' = Null
    /\ notice' = "none"
    /\ UNCHANGED <<data_dir, load_outcome, quiz_data, selected, active_state_key>>

\* the next-question button without its save_state call
AdvanceNoSave ==
    /\ OnQuestion
    /\ submitted
    /\ current_index' = current_index + 1
    /\ submitted' = FALSE
    /\ last_is_correct' = "ungraded"
    /\ score' = score
    /\ progress_map' = progress_map
    /\ user_answer' = Null
    /\ notice' = "none"
    /\ UNCHANGED <<data_dir, load_outcome, quiz_data, selected, active_state_key>>

\* the next-question button
Advance ==
    /\ OnQuestion
    /\ submitted
    /\ current_index' = current_index + 1
    /\ submitted' = FALSE
    /\ last_is_correct' = "ungraded"
    /\ score' = score
    /\ progress_map' =
           save_state(progress_map, state_key(selected),
                      Progress(current_index + 1, score, FALSE, "ungraded"))
    /\ user_answer' = Null
    /\ notice' = "none"
    /\ UNCHANGED <<data_dir, load_outcome, quiz_data, selected, active_state_key>>

\* The three select boxes in the script run that follows a change of one of
\* them, the boxes holding c, ch and t.  The entry a box returns once the
\* options computed from the boxes above it have changed is decided by
\* st.selectbox, which is not part of the source: the box either keeps the
\* entry it holds while that entry is still among its options, or goes back to
\* its first entry whenever its option list differs from the list of the run
\* before.  Both outcomes are modelled; a step takes either.

\* the two rules a select box can follow
SelectBoxRules == {"keep", "reset"}

\* the entry a box returns under a rule: the box holds held, its options are
\* the entry for all followed by the sorted facets, and before are the facets
\* its options were made from in the run before
BoxEntry(rule, held, facets, before) ==
    IF rule = "keep"
    THEN IF held \in {ALL} \cup facets THEN held ELSE ALL
    ELSE IF facets = before THEN held ELSE ALL

\* what the three select boxes can return, the boxes holding c, ch and t:
\* under either rule, the entry of the chapter box, its options made from the
\* course, then the entry of the type box, its options made from the course
\* and the chapter; in the run before the boxes held the selection on the page
Boxes(c, ch, t) ==
    UNION {{<<c, ch2, BoxEntry(rule, t, qtypes(c, ch2),
                               qtypes(selected[1], selected[2]))>> :
               ch2 \in {BoxEntry(rule, ch, chapters(c), chapters(selected[1]))}} :
           rule \in SelectBoxRules}

\* the course box set to another of its entries: the chapter box and the type
\* box return what they hold or their first entry
ChangeCourse ==
    \E c \in ({ALL} \cup all_courses) \ {selected[1]} :
        \E sel \in Boxes(c, selected[2], selected[3]) : SelectFilter(sel)

\* the chapter box set to another of its entries: the type box returns what it
\* holds or its first entry
ChangeChapter ==
    \E ch \in ({ALL} \cup chapters(selected[1])) \ {selected[2]} :
        \E sel \in Boxes(selected[1], ch, selected[3]) : SelectFilter(sel)

\* the type box set to another of its entries
ChangeQtype ==
    \E t \in ({ALL} \cup qtypes(selected[1], selected[2])) \ {selected[3]} :
        SelectFilter(<<selected[1], selected[2], t>>)

\* the select boxes: one box changed by the user, one script run
ChangeFilters ==
    \/ ChangeCourse
    \/ ChangeChapter
    \/ ChangeQtype

\* the submit button, whatever the answer widget holds
ClickSubmit ==
    /\ OnQuestion
    /\ ~submitted
    /\ \E ua \in WidgetValues(CurrentQuestion) : Submit(ua)

Next ==
    \/ FirstRun
    \/ ChangeFilters
    \/ ClickSubmit
    \/ Advance
    \/ SidebarReset
    \/ Restart

Spec == Init /\ [][Next]_vars

\* the same session on the bank whose selections share a state key
SharedSpec == SharedInit /\ [][Next]_vars

\* the same session with the select boxes left alone
GradeNext ==
    \/ FirstRun
    \/ ClickSubmit
    \/ Advance
    \/ SidebarReset
    \/ Restart

GradeSpec == GradeInit /\ [][GradeNext]_vars

\* the submit button with an answer the handler accepts
AcceptedSubmit ==
    /\ OnQuestion
    /\ ~submitted
    /\ \E ua \in WidgetValues(CurrentQuestion) :
          /\ Rejection(resolve_qtype(CurrentQuestion), ua) = "none"
          /\ Submit(ua)

\* a session on the first selection, neither reset nor switched
LiveNext ==
    \/ FirstRun
    \/ ClickSubmit
    \/ Advance

\* the user keeps going: the page runs, and an acceptable answer and the
\* next-question button are not put off for ever
LiveSpec ==
    /\ LiveInit
    /\ [][LiveNext]_vars
    /\ WF_vars(FirstRun)
    /\ WF_vars(AcceptedSubmit)
    /\ WF_vars(Advance)

\* the start of the script: the bank is loaded, then the page runs
LoadNext ==
    \/ Load
    \/ FirstRun

LoadSpec == LoadInit /\ [][LoadNext]_vars

(***************************************************************************)
(* Grading properties, checked under GradeSpec                              *)
(***************************************************************************)
\* the stored answer of the question on the page
StoredAnswer == Get(CurrentQuestion, "answer")

\* a submit has just been accepted: this step sets the submitted flag
AcceptedSubmitStep ==
    /\ OnQuestion
    /\ ~submitted
    /\ submitted'
    /\ active_state_key' = active_state_key

\* an empty stored answer: absent, empty or blank string, empty list
EmptyStored(answer) ==
    \/ answer.t = "null"
    \/ answer.t = "str" /\ strip(answer.v) = <<>>
    \/ answer.t = "list" /\ answer.v = <<>>

\* C3: whatever the question type and the accepted user answer, a submit on a
\* question whose stored answer is empty (absent, empty string, whitespace-only
\* string or empty list) is graded ungraded and leaves the score as it was.
C3_EmptyStoredIsUngraded ==
    [][(AcceptedSubmitStep /\ EmptyStored(StoredAnswer))
        => (last_is_correct' = "ungraded" /\ score' = score)]_vars

\* C6: on a submitted single-choice question whose stored answer is a non-empty
\* string, the verdict is correct exactly when the selection and the stored
\* answer are equal after trimming, and incorrect otherwise.
C6_SingleCorrectIffTrimmedEqual ==
    (/\ OnQuestion
     /\ submitted
     /\ resolve_qtype(CurrentQuestion) = SINGLE
     /\ user_answer.t = "str"
     /\ StoredAnswer.t = "str"
     /\ ~EmptyStored(StoredAnswer))
    => last_is_correct = Verdict(strip(user_answer.v) = strip(StoredAnswer.v))

\* the delimiters the multi-choice claim names: comma, fullwidth comma,
\* fullwidth semicolon, whitespace
IsClaimedDelim(c) == c \in {44, 65292, 65307} \/ IsSpace(c)  \* ,，；

RECURSIVE ClaimedPieces(_, _)
\* the set of non-empty pieces of s between claimed delimiters, cur being the
\* piece under way
ClaimedPieces(s, cur) ==
    IF s = <<>> THEN (IF cur = <<>> THEN {} ELSE {cur})
    ELSE IF IsClaimedDelim(Head(s))
         THEN (IF cur = <<>> THEN {} ELSE {cur}) \cup ClaimedPieces(Tail(s), <<>>)
         ELSE ClaimedPieces(Tail(s), Append(cur, Head(s)))

\* the stored answers of a multi-choice question as the claim reads them
ClaimedStoredSet(answer) ==
    IF answer.t = "list" THEN {normalize_text(x) : x \in SetOf(answer.v)}
    ELSE {normalize_text(x) : x \in ClaimedPieces(answer.v, <<>>)}

\* C7: on a submitted multi-choice question with a non-empty selection and a
\* non-empty stored answer, the verdict is correct exactly when the set of
\* normalized selections equals the set of normalized stored answers, a string
\* answer being split on comma, fullwidth comma, fullwidth semicolon and
\* whitespace.
C7_MultipleCorrectIffSetsEqual ==
    (/\ OnQuestion
     /\ submitted
     /\ resolve_qtype(CurrentQuestion) = MULTIPLE
     /\ user_answer.t = "list"
     /\ user_answer.v # <<>>
     /\ ~EmptyStored(StoredAnswer))
    => last_is_correct =
           Verdict({normalize_text(x) : x \in SetOf(user_answer.v)}
                   = ClaimedStoredSet(StoredAnswer))

\* the free-text question on the page was submitted with the text user_answer
TextSubmitted ==
    /\ OnQuestion
    /\ submitted
    /\ resolve_qtype(CurrentQuestion) \notin {SINGLE, MULTIPLE}
    /\ user_answer.t = "str"

\* str(answer), "" for None: what the submit handler passes to grade_subjective
StoredText == IF StoredAnswer.t # "null" THEN PyStr(StoredAnswer) ELSE <<>>

\* n: the number of keyword fragments of the stored answer
FragmentCount == Len(KeywordParts(StoredText))

\* h: the number of them that occur in the normalized user text
FragmentHits == Hits(KeywordParts(StoredText), normalize_text(user_answer.v))

\* the user text differs from the stored answer after normalization and the
\* stored answer has a keyword fragment
FragmentCase ==
    /\ TextSubmitted
    /\ normalize_text(user_answer.v) # normalize_text(StoredText)
    /\ FragmentCount >= 1

\* C8 as stated: in the fragment case, the user text being non-empty once
\* normalized, the verdict is correct exactly when 5 * h >= 4 * n, and incorrect
\* otherwise.
C8_Original ==
    (FragmentCase /\ normalize_text(user_answer.v) # <<>>)
    => last_is_correct = Verdict(5 * FragmentHits >= 4 * FragmentCount)

\* C8 amended: the same, for a stored answer that does not hold the no-answer
\* marker.
C8_FragmentThreshold ==
    (/\ FragmentCase
     /\ normalize_text(user_answer.v) # <<>>
     /\ ~Contains(NO_ANSWER_MARK, StoredText))
    => last_is_correct = Verdict(5 * FragmentHits >= 4 * FragmentCount)

\* two of three fragments hit: graded incorrect
C8_Witness ==
    /\ FragmentCase
    /\ ~Contains(NO_ANSWER_MARK, StoredText)
    /\ FragmentCount = 3
    /\ FragmentHits = 2
    /\ last_is_correct = "incorrect"

(***************************************************************************)
(* Progress properties, checked under Spec; C9 under SharedSpec            *)
(***************************************************************************)
\* the state keys that are or have been active
KnownKeys == (DOMAIN progress_map \cup {active_state_key}) \ {NoKey}

\* the progress held under state key k: the live fields while it is active, its
\* stored entry otherwise, the fresh values when it has none
Slot(k) ==
    IF k = active_state_key THEN Live
    ELSE IF k \in DOMAIN progress_map THEN progress_map[k]
    ELSE Fresh

\* the filter signatures: the selections the select boxes can be brought to
OfferedSelections ==
    {sel \in ({ALL} \cup all_courses) \X ({ALL} \cup chapters(ALL))
             \X ({ALL} \cup qtypes(ALL, ALL)) : IsOffered(sel)}

\* the progress of signature sel, which the page shows when sel is selected:
\* what is held under the state key made from it
ProgressOf(sel) == Slot(state_key(sel))

\* the number of questions in the filtered list of signature sel
TotalOf(sel) == Len(filtered(sel))

\* the values a reset leaves
ResetValues == Progress(0, 0, FALSE, "ungraded")

\* C1: a signature keeps its position, score, submitted flag and last result
\* through the step that switches away from it, through every step taken while
\* another signature is selected, and through the step that switches back to
\* it: switching from F1 to F2 and back restores F1 exactly as it was left.
C1_SwitchRoundTrip ==
    [][\A f \in OfferedSelections :
          (f # selected \/ f # selected') => ProgressOf(f)' = ProgressOf(f)]_vars

\* C2: the sidebar reset and the restart of the finish page leave position 0,
\* score 0, submitted false and last result ungraded, in the live fields and in
\* the stored entry of the active signature, whatever the state before.
C2_ResetGivesFresh ==
    [][(SidebarReset \/ Restart)
        => /\ Live' = ResetValues
           /\ state_key(selected) \in DOMAIN progress_map'
           /\ progress_map'[state_key(selected)] = ResetValues]_vars

\* the one signature visited holds a stored entry of reset values
C2_Witness ==
    /\ active_state_key # NoKey
    /\ DOMAIN progress_map = {active_state_key}
    /\ progress_map[active_state_key] = ResetValues
    /\ Live = ResetValues

\* no selection on a single-choice question, none on a multi-choice question
EmptySelection(ua) ==
    \/ resolve_qtype(CurrentQuestion) = SINGLE /\ ua = Null
    \/ resolve_qtype(CurrentQuestion) = MULTIPLE /\ ua = List(<<>>)

\* C4: a submit with no selection on a single-choice question, or with zero
\* selections on a multi-choice question, changes neither the position, the
\* score, the submitted flag, the last result nor any stored progress.
C4_EmptySubmitChangesNothing ==
    [][\A ua \in {Null, List(<<>>)} :
          (OnQuestion /\ EmptySelection(ua) /\ Submit(ua))
          => UNCHANGED <<current_index, score, submitted, last_is_correct,
                         progress_map>>]_vars

\* a multi-choice submit with zero selections has been turned down
C4_Witness ==
    /\ OnQuestion
    /\ resolve_qtype(CurrentQuestion) = MULTIPLE
    /\ notice = "select_some"
    /\ user_answer = List(<<>>)
    /\ ~submitted

\* C5: an accepted submit adds exactly 1 to the score of the active signature
\* when the verdict is correct and nothing otherwise; apart from the resets, no
\* other step changes the score of any signature.
C5_ScoreChange ==
    [][IF AcceptedSubmitStep
       THEN /\ score' = score + (IF last_is_correct' = "correct" THEN 1 ELSE 0)
            /\ \A k \in KnownKeys \ {active_state_key} :
                  Slot(k)'.score = Slot(k).score
       ELSE (SidebarReset \/ Restart)
            \/ \A k \in KnownKeys \cup KnownKeys' : Slot(k)'.score = Slot(k).score]_vars

\* a second correct answer has taken the score from 1 to 2
C5_Witness ==
    /\ submitted
    /\ user_answer # Null
    /\ last_is_correct = "correct"
    /\ current_index = 1
    /\ score = 2

\* signature sel is Complete: its position is the length of its filtered list
Complete(sel) == ProgressOf(sel).current_index = TotalOf(sel)

\* C9: a signature that is Complete admits no submit and no advance, and keeps
\* its progress, stored or live, through every step but a reset of it, the
\* switches away from it and back included.
C9_CompleteUntilReset ==
    [][\A f \in OfferedSelections :
          \/ /\ ProgressOf(f)' = ProgressOf(f)
             /\ f = selected => ~(ClickSubmit \/ Advance)
          \/ f = selected /\ (SidebarReset \/ Restart)
          \/ ~Complete(f)]_vars

\* the position of the active signature moves forward
PositionStep ==
    /\ active_state_key' = active_state_key
    /\ current_index' > current_index

\* C10: the position moves forward only by the next-question button, only from
\* the submitted state, by exactly 1, with submitted cleared, the last result
\* ungraded and the score as it was, live and stored.
C10_AdvanceEffect ==
    [][(Advance \/ PositionStep)
        => /\ submitted
           /\ Live' = Progress(current_index + 1, score, FALSE, "ungraded")
           /\ progress_map'[active_state_key] = Live']_vars

\* past the first question with the point it gave
C10_Witness ==
    /\ current_index = 1
    /\ ~submitted
    /\ last_is_correct = "ungraded"
    /\ score = 1
    /\ user_answer = Null
    /\ active_state_key \in DOMAIN progress_map
    /\ progress_map[active_state_key] = Live

(***************************************************************************)
(* Loader properties, checked under LoadSpec                               *)
(***************************************************************************)
\* the objects among the items of a list document, in order
DictItems(items) == SelectSeq(items, LAMBDA it : it.t = "dict")

\* record rec carrying name as its _source, whatever it carried before
TaggedWith(rec, name) ==
    [k \in DOMAIN rec \cup {"_source"} |->
        IF k = "_source" THEN Str(name) ELSE rec[k]]

\* record rec carrying name as its _source unless it came with one
TaggedUnlessTagged(rec, name) ==
    IF "_source" \in DOMAIN rec THEN rec ELSE TaggedWith(rec, name)

\* r is a diagnostic record for the file called name
IsDiagnostic(r, name) ==
    /\ "_source" \in DOMAIN r
    /\ r._source = Str(name)
    /\ "question" \in DOMAIN r
    /\ Contains(name, r.question.v)

\* the number of records file f is to contribute: its objects for a list, one
\* for a file that does not parse; the claim is silent on other documents
Expected(f) ==
    IF f.doc.t = "list" THEN Len(DictItems(f.doc.v))
    ELSE IF f.doc.t = "malformed" THEN 1
    ELSE Len(FileRecords(f))

RECURSIVE Layout(_, _, _)
\* bank is, file after file, what each file is to contribute; keep tells
\* whether a record that comes with a _source keeps it
Layout(bank, files, keep) ==
    IF files = <<>> THEN bank = <<>>
    ELSE LET f == Head(files)
             n == Expected(f)
             part == SubSeq(bank, 1, n)
         IN /\ Len(bank) >= n
            /\ IF f.doc.t = "list"
               THEN \A i \in 1..n :
                        part[i] = IF keep
                                  THEN TaggedUnlessTagged(DictItems(f.doc.v)[i].v, f.name)
                                  ELSE TaggedWith(DictItems(f.doc.v)[i].v, f.name)
               ELSE f.doc.t = "malformed" => IsDiagnostic(part[1], f.name)
            /\ Layout(SubSeq(bank, n + 1, Len(bank)), Tail(files), keep)

\* the folder exists and holds a bank file
HasBankFile == data_dir.exists /\ GlobFiles(data_dir) # <<>>

\* C11 as stated: once load_quiz_data() has run on a folder that holds bank
\* files it has returned, whatever files do not parse, and the bank is, file
\* after file in name order, the records of each list file in order, each
\* tagged with the name of its file, and exactly one diagnostic record naming
\* each file that does not parse.
C11_Original ==
    (load_outcome # "pending" /\ HasBankFile)
    => /\ load_outcome = "loaded"
       /\ Layout(quiz_data, GlobFiles(data_dir), FALSE)

\* C11 amended: the same, a record that comes with a _source of its own keeping
\* it.
C11_LoadLayout ==
    (load_outcome # "pending" /\ HasBankFile)
    => /\ load_outcome = "loaded"
       /\ Layout(quiz_data, GlobFiles(data_dir), TRUE)

\* a file that does not parse sorted before a list file of two records: three
\* records loaded, the diagnostic one first
C11_Witness ==
    /\ load_outcome = "loaded"
    /\ Len(GlobFiles(data_dir)) = 2
    /\ GlobFiles(data_dir)[1].doc = Malformed
    /\ GlobFiles(data_dir)[2].doc = List(<<Dict(RecPlain), Dict(RecTagged)>>)
    /\ Len(quiz_data) = 3
    /\ IsDiagnostic(quiz_data[1], FileName(1))

\* C12: load_quiz_data() raises exactly when the folder is absent or loading
\* produces no record at all; a folder whose files all parse without one of
\* them yielding a record makes it raise rather than return an empty bank.
C12_FailureIffNoRecords ==
    (load_outcome # "pending")
    => ((load_outcome # "loaded")
        <=> (~data_dir.exists \/ all_q(GlobFiles(data_dir)) = <<>>))

\* the document is an object holding a list under "data"
IsDataObject(doc) ==
    /\ doc.t = "dict"
    /\ "data" \in DOMAIN doc.v
    /\ doc.v.data.t = "list"

\* the files, each object holding a list under "data" replaced by that list
Unwrapped(files) ==
    [i \in 1..Len(files) |->
        IF IsDataObject(files[i].doc)
        THEN [name |-> files[i].name, doc |-> files[i].doc.v.data]
        ELSE files[i]]

\* C13: a bank document that is an object holding a list under "data" is loaded
\* as if the document were that list: the bank is the one the loop gives on the
\* files with every such document unwrapped.
C13_DataObjectUnwrapped ==
    (load_outcome = "loaded")
    => quiz_data = all_q(Unwrapped(GlobFiles(data_dir)))

(***************************************************************************)
(* Slot and invariant properties, checked under Spec; C16 and C17 under    *)
(* SharedSpec                                                              *)
(***************************************************************************)
\* C14: whatever the step (submit, advance, reset, restart, filter switch), the
\* stored progress of every signature other than the one selected when the
\* step is taken stays in the progress map, unchanged.
C14_OtherSlotsUnchanged ==
    [][\A g \in OfferedSelections :
          (g # selected /\ state_key(g) \in DOMAIN progress_map)
          => /\ state_key(g) \in DOMAIN progress_map'
             /\ progress_map'[state_key(g)] = progress_map[state_key(g)]]_vars

\* the lengths of the filtered lists of the selections that state key k serves
TotalsOf(k) ==
    {Len(filtered(sel)) : sel \in {x \in OfferedSelections : state_key(x) = k}}

\* C16: in every reachable state the position of the signature on the page is
\* between 0 and the length of its filtered list, so that the question looked
\* up is one of the list, and the stored position of every other signature is
\* between 0 and the length of a filtered list it stands for.
C16_PositionWithinTotal ==
    /\ 0 <= current_index
    /\ current_index <= total
    /\ \A k \in DOMAIN progress_map \ {active_state_key} :
          /\ 0 <= progress_map[k].current_index
          /\ \E n \in TotalsOf(k) : progress_map[k].current_index <= n

\* C17: in every reachable state the score of every signature is at most its
\* position, plus one when it is in the submitted state, and at most the length
\* of its filtered list.
C17_ScoreWithinSubmitted ==
    /\ score <= current_index + (IF submitted THEN 1 ELSE 0)
    /\ score <= total
    /\ \A k \in DOMAIN progress_map \ {active_state_key} :
          LET p == progress_map[k]
          IN /\ p.score <= p.current_index + (IF p.submitted THEN 1 ELSE 0)
             /\ \E n \in TotalsOf(k) : p.score <= n

\* C18: once the script has run, the stored entry of the active signature, when
\* there is one, equals the live position, score, submitted flag and last
\* result, and when there is none the live fields are the fresh ones.
C18_StoreMatchesLive ==
    (active_state_key # NoKey)
    => IF active_state_key \in DOMAIN progress_map
       THEN progress_map[active_state_key] = Live
       ELSE Live = Fresh

\* past the first question, the entry stored by the next-question button equal
\* to the live fields, another signature stored beside it
C18_Witness ==
    /\ active_state_key \in DOMAIN progress_map
    /\ current_index = 1
    /\ ~submitted
    /\ progress_map[active_state_key] = Live
    /\ \E g \in DOMAIN progress_map : g # active_state_key

\* C19: when the bank is not empty, every selection the three select boxes
\* offer has a filtered list that is not empty; the filtered list on the page
\* is empty only when the bank is.
C19_OfferedIsNonEmpty ==
    /\ IsOffered(selected)
    /\ quiz_data # <<>> => \A sel \in OfferedSelections : filtered(sel) # <<>>
    /\ total = 0 => quiz_data = <<>>

\* a course, a chapter and a type selected in a bank of two courses: one
\* question left
C19_Witness ==
    /\ active_state_key # NoKey
    /\ Cardinality(all_courses) = 2
    /\ ALL \notin {selected[1], selected[2], selected[3]}
    /\ total = 1

(***************************************************************************)
(* Progress to completion, checked under LiveSpec                           *)
(***************************************************************************)
\* one step of the cycle Answering -> Submitted -> Answering: the submitted
\* flag is set by an accepted submit, which leaves the position, and cleared by
\* an advance, which adds one to it; no other step moves the position
CycleStep ==
    /\ (~submitted /\ submitted')
       => (current_index' = current_index /\ notice' = "none"
           /\ Rejection(resolve_qtype(CurrentQuestion), user_answer') = "none")
    /\ (submitted /\ ~submitted') => current_index' = current_index + 1
    /\ (submitted' = submitted) => current_index' = current_index

\* C15 as stated: with neither reset nor filter switch, a signature of at least
\* one question goes from fresh through Answering -> Submitted -> Answering,
\* the position counting the submit/advance pairs done, and with accepted
\* submits and advances taken fairly it comes to Complete, where the position is
\* the length of the filtered list: after exactly that many pairs.
C15_Original ==
    /\ [][CycleStep]_vars
    /\ [](PastEnd => (current_index = total /\ ~submitted))
    /\ (quiz_data # <<>>) ~> OnFinish

\* question q admits an answer the submit handler accepts
Answerable(q) ==
    \E ua \in WidgetValues(q) : Rejection(resolve_qtype(q), ua) = "none"

\* every question of the filtered list on the page does
AllAnswerable ==
    \A i \in 1..total : Answerable(filtered(selected)[i])

\* C15: with neither reset nor filter switch, a signature goes from fresh
\* through Answering -> Submitted -> Answering, the position counting the
\* submit/advance pairs done; when each of its questions, at least one, admits
\* an answer the submit handler accepts, accepted submits and advances taken
\* fairly bring it to Complete, where the position is the length of the
\* filtered list: after exactly that many pairs.  On a question that admits no
\* such answer the signature stays in Answering, at that position.
C15_ReachesComplete ==
    /\ [][CycleStep]_vars
    /\ [](PastEnd => (current_index = total /\ ~submitted))
    /\ (quiz_data # <<>> /\ AllAnswerable) ~> OnFinish
    /\ [][(OnQuestion /\ ~Answerable(CurrentQuestion))
           => (~submitted' /\ current_index' = current_index)]_vars

\* Complete after two pairs, both answers right
C15_Witness ==
    /\ OnFinish
    /\ AllAnswerable
    /\ total = 2
    /\ current_index = 2
    /\ score = 2
    /\ ~submitted

====
